---- MODULE Spec2Model ----
(***************************************************************************)
(* Ruua embedded-finance business logic (src/main.py): the three in-memory *)
(* stores and the operations create_offer, process_payment, check_fraud.   *)
(*                                                                         *)
(* Money is counted in cents (an amount of 200.01 is 20001), so that the   *)
(* thresholds 200 / 1000 / 5000 and the rounding to 2 decimals are exact   *)
(* integer statements.  Interest rates are whole percents (3.0 is 3).      *)
(* A Python dict is a sequence of <<key, value>> pairs in insertion order. *)
(* The created_at timestamps are not modelled: no operation reads them.    *)
(* The dashboard UI (src/app.py) calls the same operations and keeps what  *)
(* they return in its session state.                                       *)
(***************************************************************************)
EXTENDS Integers, Sequences, FiniteSets, TLC

VARIABLES
    offers_db,          \* offer_id -> offer_data
    transactions_db,    \* transaction_id -> transaction_data
    fraud_checks_db,    \* fraud_check_id -> fraud_data
    pay_log,            \* history: the process_payment calls that returned success
    last_call,          \* history: the last call, its request and what it returned
    half_cent_up,       \* order amount -> whether its half cent is rounded up
    session_offers,         \* st.session_state.offers of the dashboard UI
    session_transactions    \* st.session_state.transactions of the dashboard UI

\* st.session_state
session_state == <<session_offers, session_transactions>>

vars == <<offers_db, transactions_db, fraud_checks_db, pay_log, last_call, half_cent_up,
          session_offers, session_transactions>>

(***************************************************************************)
(* Bounds of the exploration: how many records each store may hold.        *)
(***************************************************************************)
MaxOffers == 2
MaxTransactions == 2
MaxFraudChecks == 1

(***************************************************************************)
(* Python values.                                                          *)
(***************************************************************************)
None == <<"None">>

\* abs()
Abs(x) == IF x < 0 THEN -x ELSE x

\* key in d
DictHas(d, k) == \E i \in 1..Len(d) : d[i][1] = k

\* d[k], for a key that is present
DictGet(d, k) == d[CHOOSE i \in 1..Len(d) : d[i][1] = k][2]

\* d[k] = v: a present key keeps its position, a new key goes last
DictSet(d, k, v) ==
    IF DictHas(d, k)
    THEN [i \in 1..Len(d) |-> IF d[i][1] = k THEN <<k, v>> ELSE d[i]]
    ELSE Append(d, <<k, v>>)

\* the values, newest first
DictValues_Reversed(d) == [i \in 1..Len(d) |-> d[Len(d) + 1 - i][2]]

\* list(d.values())
DictValues(d) == [i \in 1..Len(d) |-> d[i][2]]

\* the same identifier on every call
uuid4_Constant(kind, d) == <<kind, 1>>

\* str(uuid.uuid4()): an identifier no earlier call returned.  The n-th
\* identifier generated for a store is <<kind, n>>; the stores only grow, so
\* the next one is numbered by the store's size.
uuid4(kind, d) == <<kind, Len(d) + 1>>

\* truncation instead of rounding
round2_Truncate(num, den) == {num \div den}

\* round(num / den, 2) in cents, den > 0: the nearest cent.  The program rounds
\* a binary float, so an exact half cent falls to either side (0.5 * 1.03
\* gives 0.52, 1.5 * 1.03 gives 1.54): both neighbours are candidates, and
\* FloatRounded picks the one the float arithmetic gives.
round2(num, den) ==
    LET q == num \div den
        r == num % den
    IN  IF 2 * r < den THEN {q}
        ELSE IF 2 * r > den THEN {q + 1}
        ELSE {q, q + 1}

(***************************************************************************)
(* Requests.                                                               *)
(***************************************************************************)
\* salary_monthly = None, the default of OfferRequest.__init__
NoSalary == -1

\* the fields of an offer request that create_offer never reads
OfferProfiles ==
    { [user_id |-> "user001", failed_payments_last_30_days |-> 0,
       device_country |-> "US", billing_country |-> "US",
       employer_enrolled |-> TRUE, salary_monthly |-> 500000],
      [user_id |-> "user002", failed_payments_last_30_days |-> 2,
       device_country |-> "CA", billing_country |-> "MX",
       employer_enrolled |-> FALSE, salary_monthly |-> NoSalary] }

OfferRequest(p, amount, recent) ==
    [user_id |-> p.user_id, order_amount |-> amount, recent_payments |-> recent,
     failed_payments_last_30_days |-> p.failed_payments_last_30_days,
     device_country |-> p.device_country, billing_country |-> p.billing_country,
     employer_enrolled |-> p.employer_enrolled, salary_monthly |-> p.salary_monthly]

\* order amounts in cents: around the thresholds 200 and 1000, the half-cent
\* cases 0.50 and 900, the non-positive 0 and -1, and the amounts of the tests
OrderAmounts ==
    {-100, 0, 50, 15000, 20000, 20001, 80000, 90000, 100000, 100001, 150000}

RecentPayments == {0, 2, 3, 5}

OfferRequests ==
    {OfferRequest(p, a, n) : p \in OfferProfiles, a \in OrderAmounts, n \in RecentPayments}

\* the requests of the whole-system specification: each decision, and 0
SampleOfferRequests ==
    {r \in OfferRequests : /\ r.order_amount \in {0, 20000, 100000, 100001}
                           /\ r.recent_payments \in {2, 3}}

PayRequest(offer_id) == [offer_id |-> offer_id]

\* offer identifiers a payment may name: every identifier create_offer can
\* return, one it never returns, and the identifier of a transaction
PayRequests ==
    {PayRequest(<<"offer", n>>) : n \in 1..(MaxOffers + 1)}
        \cup {PayRequest(<<"transaction", 1>>)}

FraudRequest(user, amount, device, billing, devices, failed) ==
    [user_id |-> user, transaction_amount |-> amount, device_country |-> device,
     billing_country |-> billing, device_count |-> devices,
     failed_payments_last_30_days |-> failed]

\* transaction amounts in cents, around the threshold 5000
TransactionAmounts == {100000, 500000, 500001, 1000000}

BillingCountries == {"US", "CA"}

\* around the threshold 3
DeviceCounts == {1, 3, 4, 5}

\* around the threshold 3
FailedPayments == {0, 3, 4, 5}

FraudRequests ==
    {FraudRequest("user001", a, "US", b, d, f) :
        a \in TransactionAmounts, b \in BillingCountries,
        d \in DeviceCounts, f \in FailedPayments}

\* the requests of the whole-system specification: no flag, one flag, the
\* request of test_fraud_check_flagged
SampleFraudRequests ==
    { FraudRequest("user001", 100000, "US", "US", 1, 0),
      FraudRequest("user001", 100000, "US", "CA", 1, 0),
      FraudRequest("user001", 100000, "US", "CA", 5, 5) }

(***************************************************************************)
(* create_offer                                                            *)
(***************************************************************************)
\* rule 1 with the threshold excluded
SmallAmount_Strict(offer_request) == offer_request.order_amount < 20000

\* rule 1 granted to employer-enrolled users only
SmallAmount_Enrolled(offer_request) ==
    offer_request.order_amount <= 20000 /\ offer_request.employer_enrolled

\* rule 1: order_amount <= 200
SmallAmount(offer_request) == offer_request.order_amount <= 20000

\* rule 2 without the amount cap
InstallmentEligible_HistoryOnly(offer_request) ==
    offer_request.recent_payments >= 3

\* rule 2 with the payment-history threshold excluded
InstallmentEligible_Strict(offer_request) ==
    offer_request.order_amount <= 100000 /\ offer_request.recent_payments > 3

\* rule 2 without the payment-history condition
InstallmentEligible_AmountOnly(offer_request) ==
    offer_request.order_amount <= 100000

\* rule 2: order_amount <= 1000 and recent_payments >= 3
InstallmentEligible(offer_request) ==
    offer_request.order_amount <= 100000 /\ offer_request.recent_payments >= 3

\* order_amount * 1.03 to the cent: the candidates
ApprovedPayments(order_amount) == round2(order_amount * 103, 100)

\* monthly_rate = 1 + 4/100/12 = 301/300, and amount * monthly_rate^2 / 2
\* = amount * 90601 / 180000 = amount / 2 + amount * 601 / 180000 to the cent,
\* split so that no product leaves the 32-bit integers of the checker
InstallmentPayments(order_amount) ==
    { (order_amount \div 2) + e :
        e \in round2((order_amount % 2) * 90000 + order_amount * 601, 180000) }

\* the amounts whose monthly payment is an exact half cent before rounding
HalfCentAmounts(amounts) ==
    {a \in amounts : \/ Cardinality(ApprovedPayments(a)) = 2
                     \/ Cardinality(InstallmentPayments(a)) = 2}

\* what round() returns of the candidates: the float arithmetic is
\* deterministic, so the half cent of an amount falls to the same side on
\* every call; half_cent_up holds that side
FloatRounded(candidates, order_amount) ==
    IF Cardinality(candidates) = 1 THEN candidates
    ELSE IF half_cent_up[order_amount]
         THEN {m \in candidates : \A n \in candidates : m >= n}
         ELSE {m \in candidates : \A n \in candidates : m <= n}

\* the offer_data record create_offer builds for a request (a set of one)
OfferData(offer_request, offer_id) ==
    IF SmallAmount(offer_request)
    THEN { [offer_id |-> offer_id,
            status |-> "approved",
            amount_offered |-> offer_request.order_amount,
            term_months |-> 1,
            interest_rate |-> 3,
            monthly_payment |-> m,
            reason |-> "Small amount instant approval"]
           : m \in FloatRounded(ApprovedPayments(offer_request.order_amount),
                               offer_request.order_amount) }
    ELSE IF InstallmentEligible(offer_request)
    THEN { [offer_id |-> offer_id,
            status |-> "approved_installments",
            amount_offered |-> offer_request.order_amount,
            term_months |-> 2,
            interest_rate |-> 4,
            monthly_payment |-> m,
            reason |-> "Good payment history - installment approval"]
           : m \in FloatRounded(InstallmentPayments(offer_request.order_amount),
                               offer_request.order_amount) }
    ELSE { [offer_id |-> offer_id,
            status |-> "manual_review",
            amount_offered |-> 0,
            term_months |-> 0,
            interest_rate |-> 0,
            monthly_payment |-> 0,
            reason |-> "Requires manual review due to amount or insufficient payment history"] }

\* the offer is stored in transactions_db as well
create_offer_BothStores(offer_request) ==
    /\ Len(offers_db) < MaxOffers
    /\ LET offer_id == uuid4("offer", offers_db)
       IN  \E offer_data \in OfferData(offer_request, offer_id) :
             /\ offers_db' = DictSet(offers_db, offer_id, offer_data)
             /\ transactions_db' = DictSet(transactions_db, offer_id, offer_data)
             /\ last_call' = [op |-> "create_offer", request |-> offer_request,
                              result |-> offer_data]
    /\ UNCHANGED <<fraud_checks_db, pay_log, half_cent_up>>

create_offer(offer_request) ==
    /\ Len(offers_db) < MaxOffers
    /\ LET offer_id == uuid4("offer", offers_db)
       IN  \E offer_data \in OfferData(offer_request, offer_id) :
             /\ offers_db' = DictSet(offers_db, offer_id, offer_data)
             /\ last_call' = [op |-> "create_offer", request |-> offer_request,
                              result |-> offer_data]
    /\ UNCHANGED <<transactions_db, fraud_checks_db, pay_log, half_cent_up>>

(***************************************************************************)
(* process_payment                                                         *)
(***************************************************************************)
\* manual_review counted among the payable statuses
PayableStatuses_WithReview == {"approved", "approved_installments", "manual_review"}

PayableStatuses == {"approved", "approved_installments"}

\* only the offer created last is found
OfferFound_Latest(pay_request) ==
    /\ Len(offers_db) > 0
    /\ offers_db[Len(offers_db)][1] = pay_request.offer_id

\* pay_request.offer_id in offers_db
OfferFound(pay_request) == DictHas(offers_db, pay_request.offer_id)

\* an approved offer is payable only until its first transaction
OfferApproved_Once(offer) ==
    /\ offer.status \in PayableStatuses
    /\ \A i \in 1..Len(transactions_db) : transactions_db[i][2].offer_id # offer.offer_id

\* offer["status"] in ["approved", "approved_installments"]
OfferApproved(offer) == offer.status \in PayableStatuses

\* the message of the other failure
NotFoundResult_WrongMessage ==
    [success |-> FALSE, transaction_id |-> None,
     message |-> "Offer is not approved for payment"]

NotFoundResult ==
    [success |-> FALSE, transaction_id |-> None, message |-> "Offer not found"]

NotApprovedResult ==
    [success |-> FALSE, transaction_id |-> None,
     message |-> "Offer is not approved for payment"]

SuccessResult(transaction_id) ==
    [success |-> TRUE, transaction_id |-> transaction_id,
     message |-> "Payment processed successfully"]

\* the transaction keeps its own identifier in place of the offer's
TransactionData_WrongOffer(transaction_id, pay_request, offer) ==
    [transaction_id |-> transaction_id,
     offer_id |-> transaction_id,
     amount |-> offer.amount_offered,
     status |-> "completed"]

\* the transaction records the monthly payment in place of the offered amount
TransactionData_MonthlyPayment(transaction_id, pay_request, offer) ==
    [transaction_id |-> transaction_id,
     offer_id |-> pay_request.offer_id,
     amount |-> offer.monthly_payment,
     status |-> "completed"]

TransactionData(transaction_id, pay_request, offer) ==
    [transaction_id |-> transaction_id,
     offer_id |-> pay_request.offer_id,
     amount |-> offer.amount_offered,
     status |-> "completed"]

\* the call gets past both checks and creates a transaction
Payable(pay_request) ==
    /\ OfferFound(pay_request)
    /\ OfferApproved(DictGet(offers_db, pay_request.offer_id))

process_payment(pay_request) ==
    /\ Payable(pay_request) => Len(transactions_db) < MaxTransactions
    /\ IF ~OfferFound(pay_request)
       THEN /\ last_call' = [op |-> "process_payment", request |-> pay_request,
                             result |-> NotFoundResult]
            /\ UNCHANGED <<transactions_db, pay_log>>
       ELSE LET offer == DictGet(offers_db, pay_request.offer_id)
            IN  IF ~OfferApproved(offer)
                THEN /\ last_call' = [op |-> "process_payment", request |-> pay_request,
                                      result |-> NotApprovedResult]
                     /\ UNCHANGED <<transactions_db, pay_log>>
                ELSE LET transaction_id == uuid4("transaction", transactions_db)
                         transaction_data ==
                             TransactionData(transaction_id, pay_request, offer)
                         result == SuccessResult(transaction_id)
                     IN  /\ transactions_db' =
                                DictSet(transactions_db, transaction_id, transaction_data)
                         /\ pay_log' = Append(pay_log, [offer_id |-> pay_request.offer_id,
                                                        result |-> result])
                         /\ last_call' = [op |-> "process_payment",
                                          request |-> pay_request, result |-> result]
    /\ UNCHANGED <<offers_db, fraud_checks_db, half_cent_up>>

(***************************************************************************)
(* check_fraud                                                             *)
(***************************************************************************)
\* a check that fires adds its weight and forgets its flag
FraudCheckStep_NoFlag(acc, fires, weight, flag) ==
    IF fires THEN <<acc[1] + weight, acc[2]>> ELSE acc

\* a check that fires puts its flag first instead of last
FraudCheckStep_Prepend(acc, fires, weight, flag) ==
    IF fires THEN <<acc[1] + weight, <<flag>> \o acc[2]>> ELSE acc

\* one check of check_fraud: acc is <<fraud_score, flags>>
FraudCheckStep(acc, fires, weight, flag) ==
    IF fires THEN <<acc[1] + weight, Append(acc[2], flag)>> ELSE acc

\* the failed-payments check fires at the threshold too
FraudScore_FailedInclusive(fraud_request) ==
    LET c0 == <<0, <<>>>>
        c1 == FraudCheckStep(c0, fraud_request.device_country # fraud_request.billing_country,
                             30, "Device and billing country mismatch")
        c2 == FraudCheckStep(c1, fraud_request.failed_payments_last_30_days >= 3,
                             40, "High number of failed payments in last 30 days")
        c3 == FraudCheckStep(c2, fraud_request.transaction_amount > 500000,
                             20, "Unusual high transaction amount")
        c4 == FraudCheckStep(c3, fraud_request.device_count > 3,
                             25, "Multiple devices detected")
    IN  c4

\* <<fraud_score, flags>> after the four checks
FraudScore(fraud_request) ==
    LET c0 == <<0, <<>>>>
        c1 == FraudCheckStep(c0, fraud_request.device_country # fraud_request.billing_country,
                             30, "Device and billing country mismatch")
        c2 == FraudCheckStep(c1, fraud_request.failed_payments_last_30_days > 3,
                             40, "High number of failed payments in last 30 days")
        c3 == FraudCheckStep(c2, fraud_request.transaction_amount > 500000,
                             20, "Unusual high transaction amount")
        c4 == FraudCheckStep(c3, fraud_request.device_count > 3,
                             25, "Multiple devices detected")
    IN  c4

\* review from a score of 25 on
FraudStatus_ReviewFrom25(fraud_score) ==
    IF fraud_score >= 50 THEN <<"flagged", "block">>
    ELSE IF fraud_score >= 25 THEN <<"suspicious", "review">>
    ELSE <<"approved", "allow">>

\* the flagged threshold excluded
FraudStatus_Strict(fraud_score) ==
    IF fraud_score > 50 THEN <<"flagged", "block">>
    ELSE IF fraud_score >= 30 THEN <<"suspicious", "review">>
    ELSE <<"approved", "allow">>

\* <<status, action>> of a fraud score
FraudStatus(fraud_score) ==
    IF fraud_score >= 50 THEN <<"flagged", "block">>
    ELSE IF fraud_score >= 30 THEN <<"suspicious", "review">>
    ELSE <<"approved", "allow">>

check_fraud(fraud_request) ==
    /\ Len(fraud_checks_db) < MaxFraudChecks
    /\ LET scored == FraudScore(fraud_request)
           decided == FraudStatus(scored[1])
           fraud_check_id == uuid4("fraud_check", fraud_checks_db)
           fraud_data == [fraud_check_id |-> fraud_check_id,
                          status |-> decided[1],
                          fraud_score |-> scored[1],
                          flags |-> scored[2],
                          action |-> decided[2]]
       IN  /\ fraud_checks_db' = DictSet(fraud_checks_db, fraud_check_id, fraud_data)
           /\ last_call' = [op |-> "check_fraud", request |-> fraud_request,
                            result |-> fraud_data]
    /\ UNCHANGED <<offers_db, transactions_db, pay_log, half_cent_up>>

(***************************************************************************)
(* get_all_transactions, get_all_offers, get_all_fraud_checks              *)
(***************************************************************************)
get_all_transactions ==
    /\ last_call' = [op |-> "get_all_transactions",
                     result |-> DictValues(transactions_db)]
    /\ UNCHANGED <<offers_db, transactions_db, fraud_checks_db, pay_log, half_cent_up,
                 session_offers, session_transactions>>

get_all_offers ==
    /\ last_call' = [op |-> "get_all_offers", result |-> DictValues(offers_db)]
    /\ UNCHANGED <<offers_db, transactions_db, fraud_checks_db, pay_log, half_cent_up,
                 session_offers, session_transactions>>

get_all_fraud_checks ==
    /\ last_call' = [op |-> "get_all_fraud_checks",
                     result |-> DictValues(fraud_checks_db)]
    /\ UNCHANGED <<offers_db, transactions_db, fraud_checks_db, pay_log, half_cent_up,
                 session_offers, session_transactions>>

(***************************************************************************)
(* The dashboard UI (src/app.py).                                          *)
(***************************************************************************)
\* what the offer form can submit: the amount field has a minimum of 0.01
\* and the salary field always holds a number
FormOfferRequests ==
    {r \in SampleOfferRequests : r.order_amount >= 1 /\ r.salary_monthly >= 0}

\* t.get(key, default)
get(t, key, default) == IF key \in DOMAIN t THEN t[key] ELSE default

RECURSIVE sum_amounts(_)
\* sum(t.get('amount', 0) for t in transactions)
sum_amounts(transactions) ==
    IF transactions = <<>> THEN 0
    ELSE get(Head(transactions), "amount", 0) + sum_amounts(Tail(transactions))

\* the offers the payment page lets the user select
approved_offers ==
    {session_offers[i] : i \in {j \in 1..Len(session_offers) :
        session_offers[j].status \in {"approved", "approved_installments"}}}

\* the offer page: the form is submitted
show_loan_offers(offer_request) ==
    /\ create_offer(offer_request)
    /\ session_offers' = Append(session_offers, last_call'.result)
    /\ UNCHANGED session_transactions

\* the payment page: an approved offer is selected and the button pressed
show_payments(offer) ==
    /\ offer \in approved_offers
    /\ process_payment(PayRequest(offer.offer_id))
    /\ session_transactions' =
          IF last_call'.result.success
          THEN Append(session_transactions, last_call'.result)
          ELSE session_transactions
    /\ UNCHANGED session_offers

\* the dashboard page is rendered: its metrics
show_dashboard ==
    /\ last_call' = [op |-> "show_dashboard",
                     result |-> [total_offers |-> Len(session_offers),
                                 total_transactions |-> Len(session_transactions),
                                 total_processed |-> sum_amounts(session_transactions)]]
    /\ UNCHANGED <<offers_db, transactions_db, fraud_checks_db, pay_log, half_cent_up,
                   session_offers, session_transactions>>

(***************************************************************************)
(* Specifications.                                                         *)
(***************************************************************************)
\* the module is loaded: three empty stores, no call made yet
Loaded ==
    /\ offers_db = <<>>
    /\ transactions_db = <<>>
    /\ fraud_checks_db = <<>>
    /\ pay_log = <<>>
    /\ last_call = [op |-> "none"]
    /\ session_offers = <<>>
    /\ session_transactions = <<>>

\* the rounding side of every half-cent amount among the given requests:
\* any, and the same for the whole run
RoundingFixed(requests) ==
    half_cent_up \in
        [HalfCentAmounts({r.order_amount : r \in requests}) -> BOOLEAN]

Init == Loaded /\ RoundingFixed(SampleOfferRequests)

InitOffer == Loaded /\ RoundingFixed(OfferRequests)

CreateOffer ==
    /\ \E offer_request \in SampleOfferRequests : create_offer(offer_request)
    /\ UNCHANGED session_state

ProcessPayment ==
    /\ \E pay_request \in PayRequests : process_payment(pay_request)
    /\ UNCHANGED session_state

CheckFraud ==
    /\ \E fraud_request \in SampleFraudRequests : check_fraud(fraud_request)
    /\ UNCHANGED session_state

Next ==
    \/ CreateOffer
    \/ ProcessPayment
    \/ CheckFraud
    \/ get_all_transactions
    \/ get_all_offers
    \/ get_all_fraud_checks

\* the whole system: any sequence of calls of the three operations
Spec == Init /\ [][Next]_vars

OfferDecision ==
    /\ \E offer_request \in OfferRequests : create_offer(offer_request)
    /\ UNCHANGED session_state

\* create_offer on every request of OfferRequests
SpecOffer == InitOffer /\ [][OfferDecision]_vars

FraudDecision ==
    /\ \E fraud_request \in FraudRequests : check_fraud(fraud_request)
    /\ UNCHANGED session_state

\* check_fraud on every request of FraudRequests
SpecFraud == Init /\ [][FraudDecision]_vars

ShowLoanOffers == \E offer_request \in FormOfferRequests : show_loan_offers(offer_request)

ShowPayments == \E offer \in approved_offers : show_payments(offer)

Pages ==
    \/ ShowLoanOffers
    \/ ShowPayments
    \/ show_dashboard

\* one session of the dashboard UI: any sequence of page interactions
SpecUI == Init /\ [][Pages]_vars

(***************************************************************************)
(* Properties.                                                             *)
(***************************************************************************)
Offers == {offers_db[i][2] : i \in 1..Len(offers_db)}

Transactions == {transactions_db[i][2] : i \in 1..Len(transactions_db)}

IsCall(op) == last_call.op = op

\* C1: every stored transaction references an offer of the offer store whose
\* status is approved or approved_installments, never a manual_review or
\* unknown offer.
C1_TransactionsReferenceApprovedOffers ==
    \A t \in Transactions :
        \E o \in Offers :
            /\ o.offer_id = t.offer_id
            /\ o.status \in {"approved", "approved_installments"}

\* a payment went through while a manual_review offer is in the store and a
\* payment against it was just refused
C1_Witness ==
    /\ Len(transactions_db) >= 1
    /\ IsCall("process_payment")
    /\ ~last_call.result.success
    /\ \E o \in Offers : o.offer_id = last_call.request.offer_id /\ o.status = "manual_review"

\* C2: a request with order amount <= 200 is approved with the requested
\* amount, term 1 and rate 3.0, whatever the recent payments.
C2_SmallAmountApproved ==
    (IsCall("create_offer") /\ last_call.request.order_amount <= 20000) =>
        /\ last_call.result.status = "approved"
        /\ last_call.result.amount_offered = last_call.request.order_amount
        /\ last_call.result.term_months = 1
        /\ last_call.result.interest_rate = 3

\* exactly 200 with a payment history that rule 2 would accept
C2_Witness ==
    /\ IsCall("create_offer")
    /\ last_call.request.order_amount = 20000
    /\ last_call.request.recent_payments >= 3
    /\ last_call.result.status = "approved"

\* C3: a request with 200 < order amount <= 1000 and recent payments >= 3 is
\* approved with installments: the requested amount, term 2, rate 4.0.
C3_InstallmentsApproved ==
    (/\ IsCall("create_offer")
     /\ last_call.request.order_amount > 20000
     /\ last_call.request.order_amount <= 100000
     /\ last_call.request.recent_payments >= 3) =>
        /\ last_call.result.status = "approved_installments"
        /\ last_call.result.amount_offered = last_call.request.order_amount
        /\ last_call.result.term_months = 2
        /\ last_call.result.interest_rate = 4

\* both boundaries at once: exactly 1000 with exactly 3 recent payments
C3_Witness ==
    /\ IsCall("create_offer")
    /\ last_call.request.order_amount = 100000
    /\ last_call.request.recent_payments = 3
    /\ last_call.result.status = "approved_installments"

\* C4: a request matching neither rule (amount > 1000, or amount > 200 with
\* recent payments < 3) gets manual_review with amount, term, rate and
\* monthly payment 0.
C4_ManualReview ==
    (/\ IsCall("create_offer")
     /\ \/ last_call.request.order_amount > 100000
        \/ /\ last_call.request.order_amount > 20000
           /\ last_call.request.recent_payments < 3) =>
        /\ last_call.result.status = "manual_review"
        /\ last_call.result.amount_offered = 0
        /\ last_call.result.term_months = 0
        /\ last_call.result.interest_rate = 0
        /\ last_call.result.monthly_payment = 0

\* 200.01 with 2 recent payments: just past rule 1, just short of rule 2
C4_Witness ==
    /\ IsCall("create_offer")
    /\ last_call.request.order_amount = 20001
    /\ last_call.request.recent_payments = 2
    /\ last_call.result.status = "manual_review"

\* C5: the monthly payment is the rule's formula rounded to the cent:
\* amount * 1.03 for an approved offer, amount * (1 + 0.04/12)^2 / 2 for an
\* approved_installments offer.  In cents, with p the payment and a the
\* amount: |100 p - 103 a| <= 50, and |180000 p - 90601 a| <= 90000, the
\* latter written as |90000 (2p - a) - 601 a| <= 90000.
C5_MonthlyPaymentRounded ==
    IsCall("create_offer") =>
        LET a == last_call.request.order_amount
            p == last_call.result.monthly_payment
        IN  /\ last_call.result.status = "approved" =>
                2 * Abs(100 * p - 103 * a) <= 100
            /\ last_call.result.status = "approved_installments" =>
                Abs(90000 * (2 * p - a) - 601 * a) <= 90000

\* 900 in installments: 453.005 exactly, which the program returns as 453.01
C5_Witness ==
    /\ IsCall("create_offer")
    /\ last_call.request.order_amount = 90000
    /\ last_call.result.status = "approved_installments"
    /\ last_call.result.monthly_payment = 45301

\* the transactions that reference an offer
TransactionsOf(offer_id) ==
    {i \in 1..Len(transactions_db) : transactions_db[i][2].offer_id = offer_id}

\* the successful payment calls made on an offer
SuccessfulPaymentsOf(offer_id) ==
    {i \in 1..Len(pay_log) : pay_log[i].offer_id = offer_id}

\* the step is a process_payment call that returns success
PaymentSucceeds ==
    /\ last_call'.op = "process_payment"
    /\ last_call'.result.success

\* C6: a process_payment call that returns success adds exactly one
\* transaction, under a new identifier which it returns, with the paid
\* offer's identifier, that offer's offered amount and status completed; the
\* number of stored transactions equals the number of successful calls.
C6_OneTransactionPerSuccessfulPayment ==
    /\ [](Len(transactions_db) = Len(pay_log))
    /\ [][PaymentSucceeds =>
            LET id == last_call'.result.transaction_id
                offer_id == last_call'.request.offer_id
            IN  /\ id # None
                /\ \A i \in 1..Len(transactions_db) : transactions_db[i][1] # id
                /\ \E o \in Offers :
                      /\ o.offer_id = offer_id
                      /\ transactions_db' =
                            Append(transactions_db,
                                   <<id, [transaction_id |-> id,
                                          offer_id |-> offer_id,
                                          amount |-> o.amount_offered,
                                          status |-> "completed"]>>)
                /\ Len(pay_log') = Len(pay_log) + 1]_vars

\* a second successful payment, of an installment offer of 1000
C6_Witness ==
    /\ IsCall("process_payment")
    /\ last_call.result.success
    /\ Len(transactions_db) = 2
    /\ transactions_db[2][2].amount = 100000

\* C7 as stated: the transaction store holds at most one transaction per
\* offer identifier.
C7_AtMostOneTransactionPerOffer ==
    \A o \in Offers : Cardinality(TransactionsOf(o.offer_id)) <= 1

\* C7, amended: every process_payment call on an approved or
\* approved_installments offer succeeds, and the store holds one transaction
\* per successful call on the offer: a repeated payment is not refused.
C7_OneTransactionPerCall ==
    /\ \A o \in Offers :
          Cardinality(TransactionsOf(o.offer_id))
              = Cardinality(SuccessfulPaymentsOf(o.offer_id))
    /\ IsCall("process_payment") =>
          \A o \in Offers :
              (/\ o.offer_id = last_call.request.offer_id
               /\ o.status \in {"approved", "approved_installments"})
                  => last_call.result.success

\* the same offer paid twice
C7_Witness ==
    /\ IsCall("process_payment")
    /\ last_call.result.success
    /\ Cardinality(TransactionsOf(last_call.request.offer_id)) = 2

\* the step is a process_payment call on a stored offer that is not approved
PaymentOfUnapprovedOffer ==
    /\ last_call'.op = "process_payment"
    /\ \E o \in Offers :
          /\ o.offer_id = last_call'.request.offer_id
          /\ o.status \notin {"approved", "approved_installments"}

\* C8: process_payment on an offer that is not approved (manual_review)
\* returns a failure with the not-approved message, creates no transaction
\* and leaves the three stores unchanged.
C8_UnapprovedOfferRefused ==
    [][PaymentOfUnapprovedOffer =>
        /\ last_call'.result.success = FALSE
        /\ last_call'.result.transaction_id = None
        /\ last_call'.result.message = "Offer is not approved for payment"
        /\ UNCHANGED <<offers_db, transactions_db, fraud_checks_db>>]_vars

\* a manual_review offer refused while an approved one was paid before
C8_Witness ==
    /\ IsCall("process_payment")
    /\ last_call.result.message = "Offer is not approved for payment"
    /\ \E o \in Offers :
          o.offer_id = last_call.request.offer_id /\ o.status = "manual_review"
    /\ Len(transactions_db) >= 1

\* the step is a process_payment call whose offer_id is no key of offers_db
PaymentOfUnknownOffer ==
    /\ last_call'.op = "process_payment"
    /\ \A i \in 1..Len(offers_db) : offers_db[i][1] # last_call'.request.offer_id

\* C9: process_payment with an identifier that is no key of the offer store
\* returns a failure with the not-found message and changes nothing that a
\* later call reads: the three stores (and the count of successful payments)
\* are as before the call.
C9_UnknownOfferRefused ==
    [][PaymentOfUnknownOffer =>
        /\ last_call'.result.success = FALSE
        /\ last_call'.result.transaction_id = None
        /\ last_call'.result.message = "Offer not found"
        /\ UNCHANGED <<offers_db, transactions_db, fraud_checks_db, pay_log>>]_vars

\* the identifier of a stored transaction is not the identifier of an offer
C9_Witness ==
    /\ IsCall("process_payment")
    /\ last_call.result.message = "Offer not found"
    /\ Len(offers_db) >= 1
    /\ \E t \in Transactions : t.transaction_id = last_call.request.offer_id

\* C10: the fraud score is the sum of the weights of the conditions that
\* hold: 30 for a country mismatch, 40 for failed payments > 3, 20 for an
\* amount > 5000, 25 for a device count > 3.
C10_ScoreIsSumOfWeights ==
    IsCall("check_fraud") =>
        LET r == last_call.request
            w(cond, weight) == IF cond THEN weight ELSE 0
        IN  last_call.result.fraud_score =
                w(r.device_country # r.billing_country, 30)
                + w(r.failed_payments_last_30_days > 3, 40)
                + w(r.transaction_amount > 500000, 20)
                + w(r.device_count > 3, 25)

\* the three boundary values together do not fire; the mismatch alone does
C10_Witness ==
    /\ IsCall("check_fraud")
    /\ last_call.request.failed_payments_last_30_days = 3
    /\ last_call.request.transaction_amount = 500000
    /\ last_call.request.device_count = 3
    /\ last_call.request.device_country # last_call.request.billing_country
    /\ last_call.result.fraud_score = 30

\* C11: status and action follow from the score alone: score >= 50 gives
\* flagged/block, 30 <= score < 50 gives suspicious/review, score < 30 gives
\* approved/allow; a request that triggers no condition gets score 0, status
\* approved and no flag.
C11_StatusFromScore ==
    IsCall("check_fraud") =>
        LET r == last_call.request
            res == last_call.result
        IN  /\ res.fraud_score >= 50 => res.status = "flagged" /\ res.action = "block"
            /\ (res.fraud_score >= 30 /\ res.fraud_score < 50) =>
                  res.status = "suspicious" /\ res.action = "review"
            /\ res.fraud_score < 30 => res.status = "approved" /\ res.action = "allow"
            /\ (/\ r.device_country = r.billing_country
                /\ r.failed_payments_last_30_days <= 3
                /\ r.transaction_amount <= 500000
                /\ r.device_count <= 3) =>
                  res.fraud_score = 0 /\ res.status = "approved" /\ res.flags = <<>>

\* a score of exactly 50: country mismatch and an amount above 5000
C11_Witness ==
    /\ IsCall("check_fraud")
    /\ last_call.result.fraud_score = 50
    /\ last_call.result.status = "flagged"

FraudChecks == {fraud_checks_db[i][2] : i \in 1..Len(fraud_checks_db)}

\* C12: the fraud score of every fraud check returned or stored by
\* check_fraud lies in 0..100.
C12_ScoreWithin0To100 ==
    /\ \A f \in FraudChecks : f.fraud_score >= 0 /\ f.fraud_score <= 100
    /\ IsCall("check_fraud") =>
          last_call.result.fraud_score >= 0 /\ last_call.result.fraud_score <= 100

\* the request of test_fraud_check_flagged: device US, billing CA, 5
\* devices, 5 failed payments, amount 1000
IsFlaggedTestCall ==
    /\ IsCall("check_fraud")
    /\ last_call.request.device_country = "US"
    /\ last_call.request.billing_country = "CA"
    /\ last_call.request.device_count = 5
    /\ last_call.request.failed_payments_last_30_days = 5
    /\ last_call.request.transaction_amount = 100000

FlagsOf(fraud_data) == {fraud_data.flags[i] : i \in 1..Len(fraud_data.flags)}

\* C13 as stated: that request has score >= 50, status flagged, action
\* block, and all four flags in its flag list.
C13_FlaggedWithFourFlags ==
    IsFlaggedTestCall =>
        /\ last_call.result.fraud_score >= 50
        /\ last_call.result.status = "flagged"
        /\ last_call.result.action = "block"
        /\ FlagsOf(last_call.result) =
              {"Device and billing country mismatch",
               "High number of failed payments in last 30 days",
               "Unusual high transaction amount",
               "Multiple devices detected"}

\* C13, amended: that request has score >= 50 (it is 95), status flagged,
\* action block, and the three flags of the conditions that hold: country
\* mismatch, failed payments, multiple devices.  The amount of 1000 is not
\* above 5000, so the high-amount flag is absent.
C13_FlaggedWithThreeFlags ==
    IsFlaggedTestCall =>
        /\ last_call.result.fraud_score >= 50
        /\ last_call.result.fraud_score = 95
        /\ last_call.result.status = "flagged"
        /\ last_call.result.action = "block"
        /\ FlagsOf(last_call.result) =
              {"Device and billing country mismatch",
               "High number of failed payments in last 30 days",
               "Multiple devices detected"}

\* the request was checked and its fraud check stored
C13_Witness ==
    /\ IsFlaggedTestCall
    /\ Len(fraud_checks_db) = 1
    /\ fraud_checks_db[1][2] = last_call.result

\* C14: the flag list holds one flag per condition that fired and no other,
\* in the order country mismatch, failed payments, high amount, multiple
\* devices; its length is the number of fired conditions.
C14_FlagsInEvaluationOrder ==
    IsCall("check_fraud") =>
        LET r == last_call.request
            f(cond, flag) == IF cond THEN <<flag>> ELSE <<>>
            n(cond) == IF cond THEN 1 ELSE 0
            mismatch == r.device_country # r.billing_country
            failed == r.failed_payments_last_30_days > 3
            amount == r.transaction_amount > 500000
            devices == r.device_count > 3
        IN  /\ last_call.result.flags =
                  f(mismatch, "Device and billing country mismatch")
                  \o f(failed, "High number of failed payments in last 30 days")
                  \o f(amount, "Unusual high transaction amount")
                  \o f(devices, "Multiple devices detected")
            /\ Len(last_call.result.flags) =
                  n(mismatch) + n(failed) + n(amount) + n(devices)

\* the second and the fourth condition fire, the first and third do not
C14_Witness ==
    /\ IsCall("check_fraud")
    /\ last_call.result.flags =
          <<"High number of failed payments in last 30 days",
            "Multiple devices detected">>
    /\ last_call.request.transaction_amount = 500000

\* every entry of the store d is still there, at its place and unchanged,
\* in the store e
Keeps(d, e) ==
    /\ Len(e) >= Len(d)
    /\ \A i \in 1..Len(d) : e[i] = d[i]

\* C15: the three stores are append-only and their records immutable: a
\* record stored under an identifier is still stored under it, unchanged,
\* after any later call; an offer's status never changes, so a manual_review
\* offer stays manual_review.
C15_StoresAppendOnly ==
    [][/\ Keeps(offers_db, offers_db')
       /\ Keeps(transactions_db, transactions_db')
       /\ Keeps(fraud_checks_db, fraud_checks_db')
       /\ \A i \in 1..Len(offers_db) :
             \E j \in 1..Len(offers_db') :
                 /\ offers_db'[j][1] = offers_db[i][1]
                 /\ offers_db'[j][2].status = offers_db[i][2].status]_vars

\* every store holds a record, the first offer is a manual_review offer, a
\* later offer was paid, and a payment of the first was just refused
C15_Witness ==
    /\ Len(offers_db) = 2
    /\ Len(transactions_db) >= 1
    /\ Len(fraud_checks_db) >= 1
    /\ offers_db[1][2].status = "manual_review"
    /\ IsCall("process_payment")
    /\ last_call.request.offer_id = offers_db[1][1]
    /\ ~last_call.result.success

\* C16: each operation writes at most one record, and only to its own
\* store.  create_offer adds exactly one offer, the one it returns, under a
\* new identifier, and leaves transactions and fraud checks alone;
\* check_fraud adds exactly one fraud check, the one it returns, whose score
\* follows from the request alone, and leaves offers and transactions alone;
\* process_payment adds at most one transaction and leaves offers and fraud
\* checks alone.
C16_OneWriteToOwnStore ==
    [][/\ last_call'.op = "create_offer" =>
             /\ \A i \in 1..Len(offers_db) :
                   offers_db[i][1] # last_call'.result.offer_id
             /\ offers_db' =
                   Append(offers_db, <<last_call'.result.offer_id, last_call'.result>>)
             /\ UNCHANGED <<transactions_db, fraud_checks_db>>
       /\ last_call'.op = "check_fraud" =>
             /\ \A i \in 1..Len(fraud_checks_db) :
                   fraud_checks_db[i][1] # last_call'.result.fraud_check_id
             /\ fraud_checks_db' =
                   Append(fraud_checks_db,
                          <<last_call'.result.fraud_check_id, last_call'.result>>)
             /\ UNCHANGED <<offers_db, transactions_db>>
             /\ LET r == last_call'.request
                    w(cond, weight) == IF cond THEN weight ELSE 0
                IN  last_call'.result.fraud_score =
                        w(r.device_country # r.billing_country, 30)
                        + w(r.failed_payments_last_30_days > 3, 40)
                        + w(r.transaction_amount > 500000, 20)
                        + w(r.device_count > 3, 25)
       /\ last_call'.op = "process_payment" =>
             /\ UNCHANGED <<offers_db, fraud_checks_db>>
             /\ Len(transactions_db') <= Len(transactions_db) + 1
             /\ \A i \in 1..Len(transactions_db) :
                   transactions_db'[i] = transactions_db[i]]_vars

\* a fraud check made while offers and transactions are stored
C16_Witness ==
    /\ IsCall("check_fraud")
    /\ Len(offers_db) = 2
    /\ Len(transactions_db) = 2
    /\ Len(fraud_checks_db) = 1

\* the listing lists the store d: every record, once, in the store's order
Lists(listing, d) ==
    /\ Len(listing) = Len(d)
    /\ \A i \in 1..Len(d) : listing[i] = d[i][2]
    /\ \A i, j \in 1..Len(listing) : i # j => listing[i] # listing[j]

\* the step leaves the store d alone or puts one new record after all others
GrowsAtEnd(d, e) ==
    \/ e = d
    \/ /\ Len(e) = Len(d) + 1
       /\ \A i \in 1..Len(d) : e[i] = d[i]
       /\ \A i \in 1..Len(d) : d[i][1] # e[Len(e)][1]

\* C17: get_all_offers, get_all_transactions and get_all_fraud_checks
\* return every record of their store, once each, in the order of creation:
\* a listing follows the store's order, and every record a call creates
\* enters its store behind all earlier ones.
C17_ListingsInArrivalOrder ==
    /\ [](/\ IsCall("get_all_offers") => Lists(last_call.result, offers_db)
          /\ IsCall("get_all_transactions") =>
                Lists(last_call.result, transactions_db)
          /\ IsCall("get_all_fraud_checks") =>
                Lists(last_call.result, fraud_checks_db))
    /\ [][/\ GrowsAtEnd(offers_db, offers_db')
           /\ GrowsAtEnd(transactions_db, transactions_db')
           /\ GrowsAtEnd(fraud_checks_db, fraud_checks_db')]_vars

\* a listing of two offers with different decisions, the first created first
C17_Witness ==
    /\ IsCall("get_all_offers")
    /\ Len(last_call.result) = 2
    /\ last_call.result[1].offer_id = <<"offer", 1>>
    /\ last_call.result[1].status = "manual_review"
    /\ last_call.result[2].status = "approved"

\* C18: a request with a non-positive amount or a negative count is
\* rejected: it gets no decision and no record is stored for it.
C18_InvalidRequestRejected ==
    (/\ IsCall("create_offer")
     /\ \/ last_call.request.order_amount <= 0
        \/ last_call.request.recent_payments < 0
        \/ last_call.request.failed_payments_last_30_days < 0) =>
        /\ last_call.result.status
              \notin {"approved", "approved_installments", "manual_review"}
        /\ \A o \in Offers : o # last_call.result

\* C19: every result of process_payment, success or failure, fits
\* PayResponse: a boolean success, a message, and a transaction_id that is
\* a string identifier (not None).
C19_PayResponseConforms ==
    IsCall("process_payment") =>
        /\ last_call.result.success \in BOOLEAN
        /\ last_call.result.message \in
              {"Offer not found", "Offer is not approved for payment",
               "Payment processed successfully"}
        /\ last_call.result.transaction_id # None

\* C20: an offer identifier that create_offer returned is known to every
\* later process_payment call: create_offer stores the offer under the
\* identifier it returns, no call removes or changes a stored offer, and a
\* payment of a stored offer never fails with "Offer not found": it succeeds
\* if the offer is approved and fails as not approved otherwise.
C20_ReturnedOfferStaysKnown ==
    [][/\ last_call'.op = "create_offer" =>
             \E j \in 1..Len(offers_db') :
                 offers_db'[j] = <<last_call'.result.offer_id, last_call'.result>>
       /\ \A i \in 1..Len(offers_db) :
             \E j \in 1..Len(offers_db') : offers_db'[j] = offers_db[i]
       /\ last_call'.op = "process_payment" =>
             \A o \in Offers :
                 o.offer_id = last_call'.request.offer_id =>
                     /\ last_call'.result.message # "Offer not found"
                     /\ o.status \in {"approved", "approved_installments"} =>
                           last_call'.result.success
                     /\ o.status \notin {"approved", "approved_installments"} =>
                           /\ ~last_call'.result.success
                           /\ last_call'.result.message =
                                 "Offer is not approved for payment"]_vars

\* the first offer is paid, for the first time, after a second offer and a
\* fraud check were made
C20_Witness ==
    /\ IsCall("process_payment")
    /\ last_call.request.offer_id = <<"offer", 1>>
    /\ last_call.result.success
    /\ Len(offers_db) = 2
    /\ Len(fraud_checks_db) = 1
    /\ Len(transactions_db) = 1

(***************************************************************************)
(* C21: the offer decision depends only on the requested amount and the    *)
(* count of recent successful payments: of two create_offer calls, one     *)
(* after the other, whose requests agree on order_amount and               *)
(* recent_payments, the second returns the same status, offered amount,    *)
(* term, rate, monthly payment and reason as the first, whatever the       *)
(* failed-payment count, countries, employer flag and salary of either.    *)
(***************************************************************************)
SameDecisionInputs(r1, r2) ==
    /\ r1.order_amount = r2.order_amount
    /\ r1.recent_payments = r2.recent_payments

SameDecision(o1, o2) ==
    /\ o1.status = o2.status
    /\ o1.amount_offered = o2.amount_offered
    /\ o1.term_months = o2.term_months
    /\ o1.interest_rate = o2.interest_rate
    /\ o1.monthly_payment = o2.monthly_payment
    /\ o1.reason = o2.reason

C21_DecisionFromAmountAndHistory ==
    [][ ( /\ IsCall("create_offer")
          /\ last_call'.op = "create_offer"
          /\ SameDecisionInputs(last_call.request, last_call'.request) )
        => SameDecision(last_call.result, last_call'.result) ]_vars

\* a second call from the other profile (two failed payments, countries
\* apart, not enrolled, no salary) got the decision stored for the first
\* call, which was an approval of the same amount
C21_Witness ==
    /\ IsCall("create_offer")
    /\ Len(offers_db) = 2
    /\ last_call.request.user_id = "user002"
    /\ last_call.request.order_amount = 90000
    /\ last_call.result.status = "approved_installments"
    /\ SameDecision(offers_db[1][2], last_call.result)
    /\ offers_db[1][2].offer_id # last_call.result.offer_id

(***************************************************************************)
(* C22: if every offer request has a requested amount > 0, then after any  *)
(* sequence of operations every stored transaction has an amount that is   *)
(* > 0 and <= 1000 (100000 cents).                                         *)
(***************************************************************************)
PositiveOfferRequest ==
    IsCall("create_offer") => last_call.request.order_amount > 0

TransactionAmountsInRange ==
    \A t \in Transactions : t.amount > 0 /\ t.amount <= 100000

C22_PositiveRequestsBoundTransactions ==
    []PositiveOfferRequest => []TransactionAmountsInRange

\* both ends of the range are paid: an instant approval of 200 and an
\* installment approval of 1000, and no stored offer came from an amount <= 0
C22_Witness ==
    /\ \E t \in Transactions : t.amount = 20000
    /\ \E t \in Transactions : t.amount = 100000
    /\ \A o \in Offers : o.status # "manual_review" /\ o.amount_offered > 0

(***************************************************************************)
(* C23: the fraud status is fully characterised by which conditions fire:  *)
(* it is approved exactly when there is no country mismatch, failed        *)
(* payments <= 3, and not both amount > 5000 and device count > 3; it is   *)
(* flagged exactly when country mismatch or failed payments > 3 holds      *)
(* together with at least one other fired condition; otherwise it is       *)
(* suspicious.                                                             *)
(***************************************************************************)
CountryMismatch(r) == r.device_country # r.billing_country

ManyFailedPayments(r) == r.failed_payments_last_30_days > 3

HighAmount(r) == r.transaction_amount > 500000

ManyDevices(r) == r.device_count > 3

FiredConditions(r) ==
    {c \in {"mismatch", "failed", "amount", "devices"} :
        \/ c = "mismatch" /\ CountryMismatch(r)
        \/ c = "failed" /\ ManyFailedPayments(r)
        \/ c = "amount" /\ HighAmount(r)
        \/ c = "devices" /\ ManyDevices(r)}

ApprovedCase(r) ==
    /\ ~CountryMismatch(r)
    /\ ~ManyFailedPayments(r)
    /\ ~(HighAmount(r) /\ ManyDevices(r))

FlaggedCase(r) ==
    /\ CountryMismatch(r) \/ ManyFailedPayments(r)
    /\ Cardinality(FiredConditions(r)) >= 2

C23_StatusFromFiredConditions ==
    IsCall("check_fraud") =>
        LET r == last_call.request
            status == last_call.result.status
        IN  /\ (status = "approved") <=> ApprovedCase(r)
            /\ (status = "flagged") <=> FlaggedCase(r)
            /\ (status = "suspicious") <=> (~ApprovedCase(r) /\ ~FlaggedCase(r))

\* the two light conditions fired together and alone: 45 is suspicious
C23_Witness ==
    /\ IsCall("check_fraud")
    /\ FiredConditions(last_call.request) = {"amount", "devices"}
    /\ last_call.result.status = "suspicious"
    /\ last_call.result.fraud_score = 45

(***************************************************************************)
(* C24: in the dashboard UI, after any sequence of payments processed      *)
(* through the payment page, the Total Processed metric equals the sum of  *)
(* the amounts of the transactions created by those successful payments.   *)
(***************************************************************************)
RECURSIVE AmountOfPayments(_)
\* the sum of the stored amounts of the transactions the given payment
\* results name
AmountOfPayments(payments) ==
    IF payments = <<>> THEN 0
    ELSE DictGet(transactions_db, Head(payments).transaction_id).amount
            + AmountOfPayments(Tail(payments))

C24_TotalProcessedIsSumOfPayments ==
    IsCall("show_dashboard") =>
        last_call.result.total_processed = AmountOfPayments(session_transactions)

====
